---- MODULE Spec2Model ----
(***************************************************************************)
(* A model of typescript-optional: the Optional container (PresentOptional *)
(* and EmptyOptional), its static constructors and its combinators.        *)
(*                                                                         *)
(* Containers are objects with identity: the heap is a sequence of objects *)
(* and a reference is an index into it.  Every call of the public surface  *)
(* is one action; `last` records the call, what it returned or threw, and  *)
(* every invocation of a caller-supplied callback the call made.           *)
(*                                                                         *)
(* impl selects the source variant the calls run against:                  *)
(*   "optional"  the current implementation (optional.ts)                  *)
(*   "lib"       the earlier implementation kept under lib/index.ts; of it *)
(*               the constructors, map and the payload readers are         *)
(*               modelled                                                  *)
(*   "alt"       the implementation with of, ofValue and ValueOptional; of *)
(*               it the constructors and the payload readers are modelled  *)
(***************************************************************************)
EXTENDS Integers, Sequences, FiniteSets, TLC

VARIABLES impl, heap, last

vars == <<impl, heap, last>>

\* ------------------------------------------------------------------ bounds

\* Number of containers ever allocated in one behaviour.
MaxHeap == 3
\* Number of distinct non-null payload values.
NumVals == 2

\* ------------------------------------------------------------------ values

Null == "null"
Undefined == "undefined"
NonNull == {"v" \o ToString(i) : i \in 1..NumVals}
Values == NonNull \cup {Null, Undefined}

\* Errors a caller's errorSupplier may construct.
CallerErrors == {"CustomError", "TypeError"}

Impls == {"optional", "lib", "alt"}

\* What a call hands back to its caller.
Ref(id) == [t |-> "ref", id |-> id]
Val(v) == [t |-> "val", v |-> v]
Bool(b) == [t |-> "bool", b |-> b]
Void == [t |-> "void"]
Throw(e) == [t |-> "throw", e |-> e]
Rec(r) == [t |-> "option", r |-> r]

\* The outcome of running a piece of code on heap h.
Out(h, ret, calls) == [heap |-> h, ret |-> ret, calls |-> calls]

\* One invocation of a caller-supplied callback; within lists the method calls the
\* callback's body made on containers while it ran.
Nested(cb, arg, out, within) == [cb |-> cb, arg |-> arg, out |-> out, within |-> within]
Invocation(cb, arg, out) == Nested(cb, arg, out, <<>>)
NoArg == "<no argument>"

\* Reading a property of a plain JavaScript object: a missing one reads undefined.
Field(r, name) == IF name \in DOMAIN r THEN r[name] ELSE Undefined

\* ------------------------------------------------------------------ objects

\* new PresentOptional(value): the constructor stores its argument as payload.
NewPresentOptional(h, value) ==
    Out(Append(h, [cls |-> "PresentOptional", payload |-> value]), Ref(Len(h) + 1), <<>>)

\* new EmptyOptional(): no payload property.
NewEmptyOptional(h) ==
    Out(Append(h, [cls |-> "EmptyOptional"]), Ref(Len(h) + 1), <<>>)

PresentOptional_isPresent(h, self) == TRUE

EmptyOptional_isPresent(h, self) == FALSE

\* o.isPresent(): virtual dispatch on the object's class.
isPresent(h, self) ==
    IF h[self].cls = "PresentOptional"
    THEN PresentOptional_isPresent(h, self)
    ELSE EmptyOptional_isPresent(h, self)

\* Faulty variant: isEmpty answers from a flag that is never set.
Optional_isEmpty_Stuck(h, self) == FALSE

\* isEmpty(): return !this.isPresent();
Optional_isEmpty(h, self) == ~isPresent(h, self)

\* ------------------------------------------------------------------ static constructors (optional.ts)

\* Faulty variant: of tests only for null and turns it into an empty container.
Optional_of_Lenient(h, value) ==
    IF value # Null
    THEN NewPresentOptional(h, value)
    ELSE NewEmptyOptional(h)

\* Faulty variant: the container is constructed before the test and left behind
\* when the test fails.
Optional_of_Leaky(h, value) ==
    IF value # Null /\ value # Undefined
    THEN NewPresentOptional(h, value)
    ELSE Out(NewPresentOptional(h, value).heap, Throw("TypeError"), <<>>)

Optional_of(h, value) ==
    IF value # Null /\ value # Undefined
    THEN NewPresentOptional(h, value)
    ELSE Out(h, Throw("TypeError"), <<>>)

Optional_ofNonNull(h, value) == Optional_of(h, value)

\* Faulty variant: ofNullable rejects null and undefined as of does.
Optional_ofNullable_Throwing(h, nullable) ==
    IF nullable # Null /\ nullable # Undefined
    THEN NewPresentOptional(h, nullable)
    ELSE Out(h, Throw("TypeError"), <<>>)

Optional_ofNullable(h, nullable) ==
    IF nullable # Null /\ nullable # Undefined
    THEN NewPresentOptional(h, nullable)
    ELSE NewEmptyOptional(h)

Optional_empty(h) == NewEmptyOptional(h)

\* Faulty variant: a present record is read without its value.
Optional_from_DropsValue(h, option) ==
    CASE Field(option, "kind") = "present" -> Optional_empty(h)
      [] Field(option, "kind") = "empty" -> Optional_empty(h)
      [] OTHER -> Out(h, Throw("TypeError"), <<>>)

\* Faulty variant: a record of unknown kind is read as an empty one.
Optional_from_Permissive(h, option) ==
    CASE Field(option, "kind") = "present" -> Optional_of(h, Field(option, "value"))
      [] OTHER -> Optional_empty(h)

\* Faulty variant: a present record is read with the lenient constructor.
Optional_from_Nullable(h, option) ==
    CASE Field(option, "kind") = "present" -> Optional_ofNullable(h, Field(option, "value"))
      [] Field(option, "kind") = "empty" -> Optional_empty(h)
      [] OTHER -> Out(h, Throw("TypeError"), <<>>)

Optional_from(h, option) ==
    CASE Field(option, "kind") = "present" -> Optional_of(h, Field(option, "value"))
      [] Field(option, "kind") = "empty" -> Optional_empty(h)
      [] OTHER -> Out(h, Throw("TypeError"), <<>>)

\* ------------------------------------------------------------------ static constructors (lib/index.ts)

Lib_ofNullable(h, nullable) ==
    IF nullable # Null /\ nullable # Undefined
    THEN NewPresentOptional(h, nullable)
    ELSE NewEmptyOptional(h)

Lib_ofNonNull(h, payload) ==
    IF payload # Null /\ payload # Undefined
    THEN NewPresentOptional(h, payload)
    ELSE Out(h, Throw("TypeError"), <<>>)

Lib_empty(h) == NewEmptyOptional(h)

\* ------------------------------------------------------------------ caller-supplied callbacks

\* Value mappers (map, matches.present): x => x and x => c, c possibly null or undefined.
Mappers == {[fn |-> "identity"]} \cup {[fn |-> "const", c |-> v] : v \in Values}

\* Two-argument functions combined under flatMap and map: (x, y) => x,
\* (x, y) => y, (x, y) => null.
BiFunctions == {"first", "second", "null"}

BiCall(f, x, y) ==
    CASE f = "first" -> x
      [] f = "second" -> y
      [] OTHER -> Null

\* A mapper is x => x, x => c, or the closure y => f(x, y) over a captured x.
MapperCall(m, x) ==
    CASE m.fn = "identity" -> x
      [] m.fn = "const" -> m.c
      [] OTHER -> BiCall(m.f, m.x, x)

\* Predicates (filter): x => true, x => false, x => x === c.
Predicates == {[fn |-> "true"], [fn |-> "false"]} \cup {[fn |-> "equals", c |-> v] : v \in NonNull}

PredicateCall(p, x) ==
    CASE p.fn = "true" -> TRUE
      [] p.fn = "false" -> FALSE
      [] OTHER -> x = p.c

\* Value suppliers (orElseGet, matches.empty): () => c.
ValueSuppliers == {[fn |-> "const", c |-> v] : v \in Values}

ValueSupplierCall(s) == s.c

\* Error suppliers (orElseThrow): () => new E().
ErrorSuppliers == {[fn |-> "error", e |-> e] : e \in CallerErrors}

ErrorSupplierCall(s) == s.e

\* Container suppliers (or): () => Optional.of(c), () => Optional.ofNullable(c),
\* () => Optional.empty(), and () => o for a container o the caller already holds.
Suppliers(h) ==
    {[fn |-> "of", c |-> v] : v \in NonNull}
        \cup {[fn |-> "ofNullable", c |-> v] : v \in Values}
        \cup {[fn |-> "empty"]}
        \cup {[fn |-> "captured", id |-> r] : r \in DOMAIN h}

\* Container mappers (flatMap): the suppliers' bodies, x => Optional.of(x), and
\* x => right.map(y => f(x, y)) for a container right the caller already holds.
FlatMappers(h) ==
    Suppliers(h)
        \cup {[fn |-> "of_x"]}
        \cup {[fn |-> "map_right", right |-> r, f |-> f] : r \in DOMAIN h, f \in BiFunctions}

\* A callback's body may call methods of containers, which run callbacks of their
\* own: the definitions refer to each other as the calls do.
RECURSIVE map(_, _, _, _)
RECURSIVE flatMap(_, _, _)
RECURSIVE FlatMapperCall(_, _, _)

\* The outcome of a container mapper's body; calls lists the method calls it made.
\* The composed mapper x => f(x).flatMap(g) is [fn |-> "then", f |-> f, g |-> g].
FlatMapperCall(h, f, x) ==
    CASE f.fn = "of_x" -> Optional_of(h, x)
      [] f.fn = "of" -> Optional_of(h, f.c)
      [] f.fn = "ofNullable" -> Optional_ofNullable(h, f.c)
      [] f.fn = "empty" -> Optional_empty(h)
      [] f.fn = "map_right" ->
             LET m == map("optional", h, f.right, [fn |-> "bi", f |-> f.f, x |-> x])
             IN  Out(m.heap, m.ret, <<[op |-> "map", recv |-> f.right, calls |-> m.calls]>>)
      [] f.fn = "then" ->
             LET a == FlatMapperCall(h, f.f, x)
                 b == flatMap(a.heap, a.ret.id, f.g)
             IN  Out(b.heap, b.ret,
                     a.calls \o <<[op |-> "flatMap", recv |-> a.ret.id, calls |-> b.calls]>>)
      [] OTHER -> Out(h, Ref(f.id), <<>>)

SupplierCall(h, s) == FlatMapperCall(h, s, NoArg)

\* ------------------------------------------------------------------ PresentOptional (optional.ts)

PresentOptional_get(h, self) == Out(h, Val(h[self].payload), <<>>)

\* Faulty variant: the consumer is run twice.
PresentOptional_ifPresent_Twice(h, self, consumer) ==
    Out(h, Void, <<Invocation("consumer", h[self].payload, Void),
                   Invocation("consumer", h[self].payload, Void)>>)

PresentOptional_ifPresent(h, self, consumer) ==
    Out(h, Void, <<Invocation("consumer", h[self].payload, Void)>>)

\* Faulty variant: emptyAction is run after the consumer.
PresentOptional_ifPresentOrElse_Both(h, self, consumer, emptyAction) ==
    Out(h, Void, <<Invocation("consumer", h[self].payload, Void),
                   Invocation("emptyAction", NoArg, Void)>>)

PresentOptional_ifPresentOrElse(h, self, consumer, emptyAction) ==
    Out(h, Void, <<Invocation("consumer", h[self].payload, Void)>>)

\* Faulty variant: a rejected receiver is emptied in place.
PresentOptional_filter_InPlace(h, self, predicate) ==
    LET b == PredicateCall(predicate, h[self].payload)
        called == <<Invocation("predicate", h[self].payload, Bool(b))>>
    IN  IF b
        THEN Out(h, Ref(self), called)
        ELSE Out([h EXCEPT ![self] = [cls |-> "EmptyOptional"]], Ref(self), called)

\* Faulty variant: an accepted payload is wrapped in a new container.
PresentOptional_filter_Copy(h, self, predicate) ==
    LET b == PredicateCall(predicate, h[self].payload)
        called == <<Invocation("predicate", h[self].payload, Bool(b))>>
        copy == NewPresentOptional(h, h[self].payload)
        e == Optional_empty(h)
    IN  IF b
        THEN Out(copy.heap, copy.ret, called)
        ELSE Out(e.heap, e.ret, called)

PresentOptional_filter(h, self, predicate) ==
    LET b == PredicateCall(predicate, h[self].payload)
        called == <<Invocation("predicate", h[self].payload, Bool(b))>>
        e == Optional_empty(h)
    IN  IF b
        THEN Out(h, Ref(self), called)
        ELSE Out(e.heap, e.ret, called)

\* Faulty variant: the mapper result is wrapped without the null test.
PresentOptional_map_Unchecked(h, self, mapper) ==
    LET result == MapperCall(mapper, h[self].payload)
        o == NewPresentOptional(h, result)
    IN  Out(o.heap, o.ret, <<Invocation("mapper", h[self].payload, Val(result))>>)

PresentOptional_map(h, self, mapper) ==
    LET result == MapperCall(mapper, h[self].payload)
        o == Optional_ofNullable(h, result)
    IN  Out(o.heap, o.ret, <<Invocation("mapper", h[self].payload, Val(result))>>)

\* Faulty variant: the mapper's container is copied into a new one.
PresentOptional_flatMap_Rewrap(h, self, mapper) ==
    LET r == FlatMapperCall(h, mapper, h[self].payload)
        called == <<Nested("mapper", h[self].payload, r.ret, r.calls)>>
        o == IF r.heap[r.ret.id].cls = "PresentOptional"
             THEN NewPresentOptional(r.heap, r.heap[r.ret.id].payload)
             ELSE NewEmptyOptional(r.heap)
    IN  Out(o.heap, o.ret, called)

\* Faulty variant: the receiver is returned when the mapper's container is present.
PresentOptional_flatMap_KeepsSelf(h, self, mapper) ==
    LET r == FlatMapperCall(h, mapper, h[self].payload)
        called == <<Nested("mapper", h[self].payload, r.ret, r.calls)>>
    IN  IF r.heap[r.ret.id].cls = "PresentOptional"
        THEN Out(r.heap, Ref(self), called)
        ELSE Out(r.heap, r.ret, called)

PresentOptional_flatMap(h, self, mapper) ==
    LET r == FlatMapperCall(h, mapper, h[self].payload)
    IN  Out(r.heap, r.ret, <<Nested("mapper", h[self].payload, r.ret, r.calls)>>)

\* Faulty variant: the supplier is run although the receiver is present.
PresentOptional_or_Eager(h, self, supplier) ==
    LET r == SupplierCall(h, supplier)
    IN  Out(r.heap, Ref(self), <<Invocation("supplier", NoArg, r.ret)>>)

PresentOptional_or(h, self, supplier) == Out(h, Ref(self), <<>>)

PresentOptional_orElse(h, self, another) == Out(h, Val(h[self].payload), <<>>)

\* Faulty variant: the supplier is run although the payload is returned.
PresentOptional_orElseGet_Eager(h, self, another) ==
    Out(h, Val(h[self].payload), <<Invocation("supplier", NoArg, Val(ValueSupplierCall(another)))>>)

PresentOptional_orElseGet(h, self, another) == Out(h, Val(h[self].payload), <<>>)

PresentOptional_orElseThrow(h, self, exception) == Out(h, Val(h[self].payload), <<>>)

PresentOptional_orNull(h, self) == Out(h, Val(h[self].payload), <<>>)

PresentOptional_orUndefined(h, self) == Out(h, Val(h[self].payload), <<>>)

\* Faulty variant: the present record is tagged "some".
PresentOptional_toOption_Some(h, self) ==
    Out(h, Rec([kind |-> "some", value |-> h[self].payload]), <<>>)

PresentOptional_toOption(h, self) ==
    Out(h, Rec([kind |-> "present", value |-> h[self].payload]), <<>>)

PresentOptional_matches(h, self, cases) ==
    LET u == MapperCall(cases.present, h[self].payload)
    IN  Out(h, Val(u), <<Invocation("present", h[self].payload, Val(u))>>)

PresentOptional_toJSON(h, self, key) == Out(h, Val(h[self].payload), <<>>)

\* ------------------------------------------------------------------ EmptyOptional (optional.ts)

\* Faulty variant: get on an empty container returns undefined.
EmptyOptional_get_Undefined(h, self) == Out(h, Val(Undefined), <<>>)

EmptyOptional_get(h, self) == Out(h, Throw("TypeError"), <<>>)

\* Faulty variant: the consumer is run on the missing payload.
EmptyOptional_ifPresent_Calls(h, self, consumer) ==
    Out(h, Void, <<Invocation("consumer", Undefined, Void)>>)

EmptyOptional_ifPresent(h, self, consumer) == Out(h, Void, <<>>)

EmptyOptional_ifPresentOrElse(h, self, consumer, emptyAction) ==
    Out(h, Void, <<Invocation("emptyAction", NoArg, Void)>>)

EmptyOptional_filter(h, self, predicate) == Out(h, Ref(self), <<>>)

EmptyOptional_map(h, self, mapper) == Optional_empty(h)

\* Faulty variant: the mapper is run on the missing payload and its result dropped.
EmptyOptional_flatMap_Evaluates(h, self, mapper) ==
    LET r == FlatMapperCall(h, mapper, Undefined)
        e == Optional_empty(r.heap)
    IN  Out(e.heap, e.ret, <<Nested("mapper", Undefined, r.ret, r.calls)>>)

EmptyOptional_flatMap(h, self, mapper) == Optional_empty(h)

EmptyOptional_or(h, self, supplier) ==
    LET r == SupplierCall(h, supplier)
    IN  Out(r.heap, r.ret, <<Invocation("supplier", NoArg, r.ret)>>)

EmptyOptional_orElse(h, self, another) == Out(h, Val(another), <<>>)

EmptyOptional_orElseGet(h, self, another) ==
    LET v == ValueSupplierCall(another)
        r == EmptyOptional_orElse(h, self, v)
    IN  Out(r.heap, r.ret, <<Invocation("supplier", NoArg, Val(v))>>)

\* Faulty variant: the caller's error is replaced by the module's TypeError.
EmptyOptional_orElseThrow_Replaced(h, self, exception) ==
    LET e == ErrorSupplierCall(exception)
    IN  Out(h, Throw("TypeError"), <<Invocation("errorSupplier", NoArg, Val(e))>>)

EmptyOptional_orElseThrow(h, self, exception) ==
    LET e == ErrorSupplierCall(exception)
    IN  Out(h, Throw(e), <<Invocation("errorSupplier", NoArg, Val(e))>>)

\* Faulty variant: orNull answers with the undefined sentinel.
EmptyOptional_orNull_Undefined(h, self) == Out(h, Val(Undefined), <<>>)

EmptyOptional_orNull(h, self) == Out(h, Val(Null), <<>>)

EmptyOptional_orUndefined(h, self) == Out(h, Val(Undefined), <<>>)

\* Faulty variant: the empty record carries a value property.
EmptyOptional_toOption_WithValue(h, self) ==
    Out(h, Rec([kind |-> "empty", value |-> Undefined]), <<>>)

EmptyOptional_toOption(h, self) == Out(h, Rec([kind |-> "empty"]), <<>>)

\* Faulty variant: an undefined result of the empty case is turned into null.
EmptyOptional_matches_Normalizing(h, self, cases) ==
    LET u == ValueSupplierCall(cases.empty)
    IN  Out(h, Val(IF u = Undefined THEN Null ELSE u), <<Invocation("empty", NoArg, Val(u))>>)

EmptyOptional_matches(h, self, cases) ==
    LET u == ValueSupplierCall(cases.empty)
    IN  Out(h, Val(u), <<Invocation("empty", NoArg, Val(u))>>)

\* Faulty variant: an empty container serializes as undefined.
EmptyOptional_toJSON_Undefined(h, self, key) == Out(h, Val(Undefined), <<>>)

EmptyOptional_toJSON(h, self, key) == Out(h, Val(Null), <<>>)

\* ------------------------------------------------------------------ PresentOptional / EmptyOptional (lib/index.ts)

Lib_PresentOptional_map(h, self, mapper) ==
    LET result == MapperCall(mapper, h[self].payload)
        o == Lib_ofNonNull(h, result)
    IN  Out(o.heap, o.ret, <<Invocation("mapper", h[self].payload, Val(result))>>)

Lib_EmptyOptional_map(h, self, mapper) == Lib_empty(h)

Lib_PresentOptional_get(h, self) == Out(h, Val(h[self].payload), <<>>)

Lib_PresentOptional_ifPresent(h, self, consumer) ==
    Out(h, Void, <<Invocation("consumer", h[self].payload, Void)>>)

Lib_PresentOptional_orElse(h, self, another) == Out(h, Val(h[self].payload), <<>>)

Lib_PresentOptional_orElseGet(h, self, another) == Out(h, Val(h[self].payload), <<>>)

Lib_EmptyOptional_get(h, self) == Out(h, Throw("TypeError"), <<>>)

Lib_EmptyOptional_ifPresent(h, self, consumer) == Out(h, Void, <<>>)

Lib_EmptyOptional_orElse(h, self, another) == Out(h, Val(another), <<>>)

Lib_EmptyOptional_orElseGet(h, self, another) ==
    LET v == ValueSupplierCall(another)
        r == Lib_EmptyOptional_orElse(h, self, v)
    IN  Out(r.heap, r.ret, <<Invocation("supplier", NoArg, Val(v))>>)

\* ------------------------------------------------------------------ Optional, ValueOptional, EmptyOptional (of / ofValue variant)

\* new ValueOptional(value): the constructor's body is the expression statement
\* `this.value;`, which assigns nothing, so the object has no value of its own.
NewValueOptional(h, value) ==
    Out(Append(h, [cls |-> "ValueOptional"]), Ref(Len(h) + 1), <<>>)

\* of tests only `value !== null`.
Alt_of(h, value) ==
    IF value # Null
    THEN NewValueOptional(h, value)
    ELSE NewEmptyOptional(h)

Alt_ofValue(h, value) ==
    IF value # Null /\ value # Undefined
    THEN NewValueOptional(h, value)
    ELSE Out(h, Throw("TypeError"), <<>>)

Alt_empty(h) == NewEmptyOptional(h)

ValueOptional_get(h, self) == Out(h, Val(Field(h[self], "value")), <<>>)

ValueOptional_ifPresent(h, self, consumer) ==
    Out(h, Void, <<Invocation("consumer", Field(h[self], "value"), Void)>>)

ValueOptional_orElse(h, self, another) == Out(h, Val(Field(h[self], "value")), <<>>)

ValueOptional_orElseGet(h, self, another) == Out(h, Val(Field(h[self], "value")), <<>>)

Alt_EmptyOptional_get(h, self) == Out(h, Throw("TypeError"), <<>>)

Alt_EmptyOptional_ifPresent(h, self, consumer) == Out(h, Void, <<>>)

Alt_EmptyOptional_orElse(h, self, another) == Out(h, Val(another), <<>>)

Alt_EmptyOptional_orElseGet(h, self, another) ==
    LET v == ValueSupplierCall(another)
    IN  Out(h, Val(v), <<Invocation("supplier", NoArg, Val(v))>>)

\* ------------------------------------------------------------------ method calls (virtual dispatch)

Present(h, self) == h[self].cls = "PresentOptional"

get(h, self) ==
    IF Present(h, self) THEN PresentOptional_get(h, self) ELSE EmptyOptional_get(h, self)

filter(h, self, predicate) ==
    IF Present(h, self)
    THEN PresentOptional_filter(h, self, predicate)
    ELSE EmptyOptional_filter(h, self, predicate)

map(i, h, self, mapper) ==
    CASE i = "optional" /\ Present(h, self) -> PresentOptional_map(h, self, mapper)
      [] i = "optional" /\ ~Present(h, self) -> EmptyOptional_map(h, self, mapper)
      [] i = "lib" /\ Present(h, self) -> Lib_PresentOptional_map(h, self, mapper)
      [] OTHER -> Lib_EmptyOptional_map(h, self, mapper)

flatMap(h, self, mapper) ==
    IF Present(h, self)
    THEN PresentOptional_flatMap(h, self, mapper)
    ELSE EmptyOptional_flatMap(h, self, mapper)

or(h, self, supplier) ==
    IF Present(h, self)
    THEN PresentOptional_or(h, self, supplier)
    ELSE EmptyOptional_or(h, self, supplier)

ifPresent(h, self, consumer) ==
    IF Present(h, self)
    THEN PresentOptional_ifPresent(h, self, consumer)
    ELSE EmptyOptional_ifPresent(h, self, consumer)

ifPresentOrElse(h, self, consumer, emptyAction) ==
    IF Present(h, self)
    THEN PresentOptional_ifPresentOrElse(h, self, consumer, emptyAction)
    ELSE EmptyOptional_ifPresentOrElse(h, self, consumer, emptyAction)

orElse(h, self, another) ==
    IF Present(h, self)
    THEN PresentOptional_orElse(h, self, another)
    ELSE EmptyOptional_orElse(h, self, another)

orElseGet(h, self, another) ==
    IF Present(h, self)
    THEN PresentOptional_orElseGet(h, self, another)
    ELSE EmptyOptional_orElseGet(h, self, another)

orElseThrow(h, self, exception) ==
    IF Present(h, self)
    THEN PresentOptional_orElseThrow(h, self, exception)
    ELSE EmptyOptional_orElseThrow(h, self, exception)

orNull(h, self) ==
    IF Present(h, self) THEN PresentOptional_orNull(h, self) ELSE EmptyOptional_orNull(h, self)

orUndefined(h, self) ==
    IF Present(h, self)
    THEN PresentOptional_orUndefined(h, self)
    ELSE EmptyOptional_orUndefined(h, self)

toOption(h, self) ==
    IF Present(h, self)
    THEN PresentOptional_toOption(h, self)
    ELSE EmptyOptional_toOption(h, self)

matches(h, self, cases) ==
    IF Present(h, self)
    THEN PresentOptional_matches(h, self, cases)
    ELSE EmptyOptional_matches(h, self, cases)

toJSON(h, self, key) ==
    IF Present(h, self)
    THEN PresentOptional_toJSON(h, self, key)
    ELSE EmptyOptional_toJSON(h, self, key)

\* The same calls in the other variants: i names the variant whose classes the
\* objects on the heap belong to.
getIn(i, h, self) ==
    CASE i = "optional" -> get(h, self)
      [] i = "lib" /\ Present(h, self) -> Lib_PresentOptional_get(h, self)
      [] i = "lib" -> Lib_EmptyOptional_get(h, self)
      [] h[self].cls = "ValueOptional" -> ValueOptional_get(h, self)
      [] OTHER -> Alt_EmptyOptional_get(h, self)

ifPresentIn(i, h, self, consumer) ==
    CASE i = "optional" -> ifPresent(h, self, consumer)
      [] i = "lib" /\ Present(h, self) -> Lib_PresentOptional_ifPresent(h, self, consumer)
      [] i = "lib" -> Lib_EmptyOptional_ifPresent(h, self, consumer)
      [] h[self].cls = "ValueOptional" -> ValueOptional_ifPresent(h, self, consumer)
      [] OTHER -> Alt_EmptyOptional_ifPresent(h, self, consumer)

orElseIn(i, h, self, another) ==
    CASE i = "optional" -> orElse(h, self, another)
      [] i = "lib" /\ Present(h, self) -> Lib_PresentOptional_orElse(h, self, another)
      [] i = "lib" -> Lib_EmptyOptional_orElse(h, self, another)
      [] h[self].cls = "ValueOptional" -> ValueOptional_orElse(h, self, another)
      [] OTHER -> Alt_EmptyOptional_orElse(h, self, another)

orElseGetIn(i, h, self, another) ==
    CASE i = "optional" -> orElseGet(h, self, another)
      [] i = "lib" /\ Present(h, self) -> Lib_PresentOptional_orElseGet(h, self, another)
      [] i = "lib" -> Lib_EmptyOptional_orElseGet(h, self, another)
      [] h[self].cls = "ValueOptional" -> ValueOptional_orElseGet(h, self, another)
      [] OTHER -> Alt_EmptyOptional_orElseGet(h, self, another)

\* ------------------------------------------------------------------ state machine

Init ==
    /\ impl \in Impls
    /\ heap = <<>>
    /\ last = [op |-> "init", recv |-> 0, arg |-> NoArg, ret |-> Void, calls |-> <<>>, made |-> 0]

\* A call of operation op on receiver recv (0 for a static call) with outcome out.
\* made counts the containers the call constructed.
Do(op, recv, arg, out) ==
    /\ Len(out.heap) <= MaxHeap
    /\ heap' = out.heap
    /\ last' = [op |-> op, recv |-> recv, arg |-> arg, ret |-> out.ret, calls |-> out.calls,
                made |-> Len(out.heap) - Len(heap)]
    /\ UNCHANGED impl

Call_of ==
    /\ impl \in {"optional", "alt"}
    /\ \E v \in Values :
        Do("of", 0, v, IF impl = "optional" THEN Optional_of(heap, v) ELSE Alt_of(heap, v))

Call_ofValue ==
    /\ impl = "alt"
    /\ \E v \in Values : Do("ofValue", 0, v, Alt_ofValue(heap, v))

Call_ofNonNull ==
    /\ impl \in {"optional", "lib"}
    /\ \E v \in Values :
        Do("ofNonNull", 0, v,
           IF impl = "optional" THEN Optional_ofNonNull(heap, v) ELSE Lib_ofNonNull(heap, v))

Call_ofNullable ==
    /\ impl \in {"optional", "lib"}
    /\ \E v \in Values :
        Do("ofNullable", 0, v,
           IF impl = "optional" THEN Optional_ofNullable(heap, v) ELSE Lib_ofNullable(heap, v))

Call_empty ==
    /\ impl \in Impls
    /\ Do("empty", 0, NoArg,
          CASE impl = "optional" -> Optional_empty(heap)
            [] impl = "lib" -> Lib_empty(heap)
            [] OTHER -> Alt_empty(heap))

\* Plain records handed to from: the two shapes of Option, a present record whose
\* value is null or undefined, a record with an unknown kind, and an object with
\* no kind at all.
Options ==
    {[kind |-> "present", value |-> v] : v \in Values}
        \cup {[kind |-> "empty"], [kind |-> "unknown"], [name |-> "malformed"]}

Call_from ==
    /\ impl = "optional"
    /\ \E option \in Options : Do("from", 0, option, Optional_from(heap, option))

Call_isPresent ==
    /\ impl = "optional"
    /\ \E self \in DOMAIN heap :
        Do("isPresent", self, NoArg, Out(heap, Bool(isPresent(heap, self)), <<>>))

Call_isEmpty ==
    /\ impl = "optional"
    /\ \E self \in DOMAIN heap :
        Do("isEmpty", self, NoArg, Out(heap, Bool(Optional_isEmpty(heap, self)), <<>>))

Call_get ==
    /\ impl \in Impls
    /\ \E self \in DOMAIN heap : Do("get", self, NoArg, getIn(impl, heap, self))

Call_filter ==
    /\ impl = "optional"
    /\ \E self \in DOMAIN heap, predicate \in Predicates :
        Do("filter", self, predicate, filter(heap, self, predicate))

Call_map ==
    /\ impl \in {"optional", "lib"}
    /\ \E self \in DOMAIN heap, mapper \in Mappers :
        Do("map", self, mapper, map(impl, heap, self, mapper))

Call_flatMap ==
    /\ impl = "optional"
    /\ \E self \in DOMAIN heap, mapper \in FlatMappers(heap) :
        Do("flatMap", self, mapper, flatMap(heap, self, mapper))

Call_or ==
    /\ impl = "optional"
    /\ \E self \in DOMAIN heap, supplier \in Suppliers(heap) :
        Do("or", self, supplier, or(heap, self, supplier))

\* Side-effecting callbacks (ifPresent, ifPresentOrElse) are opaque: only their
\* invocation is observed.
Consumer == [fn |-> "consumer"]
EmptyAction == [fn |-> "emptyAction"]

\* Cases handed to matches: the two callbacks never return the same value, so the
\* result tells which one ran.
CasesGiven ==
    {[present |-> p, empty |-> e] :
        p \in {[fn |-> "identity"], [fn |-> "const", c |-> Null]},
        e \in {[fn |-> "const", c |-> Undefined], [fn |-> "const", c |-> "other"]}}

\* Property names JSON.stringify passes to toJSON.
Keys == {"", "key"}

Call_ifPresent ==
    /\ impl \in Impls
    /\ \E self \in DOMAIN heap :
        Do("ifPresent", self, Consumer, ifPresentIn(impl, heap, self, Consumer))

Call_ifPresentOrElse ==
    /\ impl = "optional"
    /\ \E self \in DOMAIN heap :
        Do("ifPresentOrElse", self, <<Consumer, EmptyAction>>,
           ifPresentOrElse(heap, self, Consumer, EmptyAction))

Call_orElse ==
    /\ impl \in Impls
    /\ \E self \in DOMAIN heap, another \in Values :
        Do("orElse", self, another, orElseIn(impl, heap, self, another))

Call_orElseGet ==
    /\ impl \in Impls
    /\ \E self \in DOMAIN heap, another \in ValueSuppliers :
        Do("orElseGet", self, another, orElseGetIn(impl, heap, self, another))

Call_orElseThrow ==
    /\ impl = "optional"
    /\ \E self \in DOMAIN heap, exception \in ErrorSuppliers :
        Do("orElseThrow", self, exception, orElseThrow(heap, self, exception))

Call_orNull ==
    /\ impl = "optional"
    /\ \E self \in DOMAIN heap : Do("orNull", self, NoArg, orNull(heap, self))

Call_orUndefined ==
    /\ impl = "optional"
    /\ \E self \in DOMAIN heap : Do("orUndefined", self, NoArg, orUndefined(heap, self))

Call_toOption ==
    /\ impl = "optional"
    /\ \E self \in DOMAIN heap : Do("toOption", self, NoArg, toOption(heap, self))

Call_matches ==
    /\ impl = "optional"
    /\ \E self \in DOMAIN heap, cases \in CasesGiven :
        Do("matches", self, cases, matches(heap, self, cases))

Call_toJSON ==
    /\ impl = "optional"
    /\ \E self \in DOMAIN heap, key \in Keys : Do("toJSON", self, key, toJSON(heap, self, key))

Next ==
    \/ Call_of
    \/ Call_ofValue
    \/ Call_ofNonNull
    \/ Call_ofNullable
    \/ Call_empty
    \/ Call_from
    \/ Call_isPresent
    \/ Call_isEmpty
    \/ Call_get
    \/ Call_filter
    \/ Call_map
    \/ Call_flatMap
    \/ Call_or
    \/ Call_ifPresent
    \/ Call_ifPresentOrElse
    \/ Call_orElse
    \/ Call_orElseGet
    \/ Call_orElseThrow
    \/ Call_orNull
    \/ Call_orUndefined
    \/ Call_toOption
    \/ Call_matches
    \/ Call_toJSON

Spec == Init /\ [][Next]_vars

\* ------------------------------------------------------------------ properties

\* What a reference returned by the last call points to.
ReturnedPresent(v) ==
    /\ last.ret.t = "ref"
    /\ last.ret.id \in DOMAIN heap
    /\ heap[last.ret.id].cls = "PresentOptional"
    /\ heap[last.ret.id].payload = v

ReturnedEmpty ==
    /\ last.ret.t = "ref"
    /\ last.ret.id \in DOMAIN heap
    /\ heap[last.ret.id].cls = "EmptyOptional"

\* The last call returned a container it constructed itself.
ReturnedFresh == last.ret.t = "ref" /\ last.made = 1 /\ last.ret.id = Len(heap)

ReceiverPresent == last.recv \in DOMAIN heap /\ heap[last.recv].cls = "PresentOptional"

ReceiverEmpty == last.recv \in DOMAIN heap /\ heap[last.recv].cls = "EmptyOptional"

\* C1: in optional.ts, whatever sequence of constructors and transformations ran,
\* no PresentOptional on the heap holds null or undefined as its payload.
C1_PresentNeverNull ==
    impl = "optional" =>
        \A o \in DOMAIN heap :
            heap[o].cls = "PresentOptional" => heap[o].payload \in NonNull

\* C1 witness: map ran on a present container with a mapper that returned null or
\* undefined, and a present container is on the heap.
C1_Witness ==
    /\ impl = "optional"
    /\ last.op = "map"
    /\ ReceiverPresent
    /\ Len(last.calls) = 1
    /\ last.calls[1].out \in {Val(Null), Val(Undefined)}
    /\ \E o \in DOMAIN heap : heap[o].cls = "PresentOptional"

\* C2: map on a present container invokes the mapper once on the payload and wraps
\* the result as ofNullable does (present when non-null, empty when null or
\* undefined, never an error); on an empty container it returns an empty container
\* and does not invoke the mapper.  Stated of both variants that define map.
C2_MapWrapsAsOfNullable ==
    last.op = "map" =>
        IF ReceiverPresent
        THEN /\ Len(last.calls) = 1
             /\ last.calls[1].cb = "mapper"
             /\ last.calls[1].arg = heap[last.recv].payload
             /\ last.calls[1].out = Val(MapperCall(last.arg, heap[last.recv].payload))
             /\ IF last.calls[1].out.v \in {Null, Undefined}
                THEN ReturnedEmpty
                ELSE ReturnedPresent(last.calls[1].out.v)
        ELSE /\ last.calls = <<>>
             /\ ReturnedEmpty

\* C3: of and ofNonNull agree on every input: a fresh present container holding v
\* when v is neither null nor undefined, a TypeError and no container otherwise.
C3_OfStrict ==
    (impl = "optional" /\ last.op \in {"of", "ofNonNull"}) =>
        /\ IF last.arg \in NonNull
           THEN ReturnedFresh /\ ReturnedPresent(last.arg)
           ELSE last.ret = Throw("TypeError") /\ last.made = 0
        /\ \A v \in Values : Optional_ofNonNull(heap, v) = Optional_of(heap, v)

\* C3 witness: of was given undefined and threw.
C3_Witness ==
    /\ impl = "optional"
    /\ last.op = "of"
    /\ last.arg = Undefined
    /\ last.ret.t = "throw"

\* C4: ofNullable never throws: an empty container for null and undefined, a
\* present container holding v for every other v.
C4_OfNullableTotal ==
    (impl = "optional" /\ last.op = "ofNullable") =>
        /\ ReturnedFresh
        /\ IF last.arg \in {Null, Undefined}
           THEN ReturnedEmpty
           ELSE ReturnedPresent(last.arg)

\* C4 witness: ofNullable was given undefined and returned a container.
C4_Witness ==
    /\ impl = "optional"
    /\ last.op = "ofNullable"
    /\ last.arg = Undefined
    /\ last.ret.t = "ref"

\* C5: get returns the payload of a present container and throws TypeError on an
\* empty one, for every container on the heap.
C5_Get ==
    impl = "optional" =>
        /\ \A o \in DOMAIN heap :
              get(heap, o).ret = IF heap[o].cls = "PresentOptional"
                                 THEN Val(heap[o].payload)
                                 ELSE Throw("TypeError")
        /\ last.op = "get" =>
              /\ last.made = 0
              /\ last.calls = <<>>
              /\ IF ReceiverPresent
                 THEN last.ret = Val(heap[last.recv].payload)
                 ELSE last.ret = Throw("TypeError")

\* C5 witness: get was called on an empty container and threw.
C5_Witness ==
    /\ impl = "optional"
    /\ last.op = "get"
    /\ ReceiverEmpty
    /\ last.ret.t = "throw"

\* C6: isEmpty is the negation of isPresent for every container; no object stores
\* an emptiness flag of its own.
C6_IsEmptyNegatesIsPresent ==
    impl = "optional" =>
        /\ \A o \in DOMAIN heap :
              /\ Optional_isEmpty(heap, o) = ~isPresent(heap, o)
              /\ DOMAIN heap[o] \subseteq {"cls", "payload"}
        /\ last.op = "isEmpty" => last.ret = Bool(~isPresent(heap, last.recv))

\* C6 witness: isEmpty was called on a present container.
C6_Witness ==
    /\ impl = "optional"
    /\ last.op = "isEmpty"
    /\ ReceiverPresent

\* C7: no call changes the class or the payload of a container that already exists.
C7_Immutable ==
    [][impl = "optional" =>
          \A o \in DOMAIN heap : o \in DOMAIN heap' /\ heap'[o] = heap[o]]_vars

\* C7 witness: filter rejected the payload of a present receiver, and the receiver
\* is still on the heap as a present container.
C7_Witness ==
    /\ impl = "optional"
    /\ last.op = "filter"
    /\ Len(last.calls) = 1
    /\ last.calls[1].out = Bool(FALSE)
    /\ ReceiverPresent

\* C8: flatMap on a present container invokes the mapper once on the payload and
\* returns the very container the mapper returned, constructing nothing itself; on
\* an empty container it returns an empty container and never invokes the mapper.
C8_FlatMap ==
    (impl = "optional" /\ last.op = "flatMap") =>
        IF ReceiverPresent
        THEN /\ Len(last.calls) = 1
             /\ last.calls[1].cb = "mapper"
             /\ last.calls[1].arg = heap[last.recv].payload
             /\ last.ret = last.calls[1].out
             /\ last.arg.fn = "captured" => (last.ret = Ref(last.arg.id) /\ last.made = 0)
             /\ last.arg.fn # "captured" => ReturnedFresh
        ELSE /\ last.calls = <<>>
             /\ ReturnedEmpty

\* C8 witness: flatMap on a present container whose mapper returned a container
\* the caller already held.
C8_Witness ==
    /\ impl = "optional"
    /\ last.op = "flatMap"
    /\ ReceiverPresent
    /\ last.arg.fn = "captured"
    /\ last.ret.t = "ref"

\* C9: filter on a present container returns the receiver itself when the predicate
\* accepts the payload and an empty container when it rejects it; on an empty
\* container it returns an empty container and never invokes the predicate.
C9_Filter ==
    (impl = "optional" /\ last.op = "filter") =>
        IF ReceiverPresent
        THEN /\ last.calls = <<Invocation("predicate", heap[last.recv].payload,
                                          Bool(PredicateCall(last.arg, heap[last.recv].payload)))>>
             /\ IF PredicateCall(last.arg, heap[last.recv].payload)
                THEN last.ret = Ref(last.recv) /\ last.made = 0
                ELSE ReturnedEmpty
        ELSE /\ last.calls = <<>>
             /\ ReturnedEmpty

\* C9 witness: filter on a present container whose predicate accepted the payload.
C9_Witness ==
    /\ impl = "optional"
    /\ last.op = "filter"
    /\ ReceiverPresent
    /\ Len(last.calls) = 1
    /\ last.calls[1].out = Bool(TRUE)

\* C10: or on a present container returns the receiver itself and never invokes the
\* supplier; on an empty container it invokes the supplier once and returns the
\* very container the supplier produced.
C10_Or ==
    (impl = "optional" /\ last.op = "or") =>
        IF ReceiverPresent
        THEN /\ last.ret = Ref(last.recv)
             /\ last.calls = <<>>
             /\ last.made = 0
        ELSE /\ Len(last.calls) = 1
             /\ last.calls[1].cb = "supplier"
             /\ last.ret = last.calls[1].out
             /\ last.ret.t = "ref"
             /\ last.arg.fn = "captured" => (last.ret = Ref(last.arg.id) /\ last.made = 0)
             /\ last.arg.fn # "captured" => ReturnedFresh

\* C10 witness: or on a present container, given a supplier that would construct one.
C10_Witness ==
    /\ impl = "optional"
    /\ last.op = "or"
    /\ ReceiverPresent
    /\ last.arg.fn = "of"

\* C11: on a present container get, orElse and orElseGet all return the payload,
\* whatever fallback is given, and the supplier is not invoked; on an empty
\* container get throws, orElse returns its argument and orElseGet invokes the
\* supplier once and returns what it produced.
C11_GetOrElseDuality ==
    impl = "optional" =>
        /\ \A o \in DOMAIN heap, d \in Values, s \in ValueSuppliers :
              IF heap[o].cls = "PresentOptional"
              THEN /\ get(heap, o).ret = Val(heap[o].payload)
                   /\ orElse(heap, o, d).ret = get(heap, o).ret
                   /\ orElseGet(heap, o, s).ret = get(heap, o).ret
                   /\ orElseGet(heap, o, s).calls = <<>>
              ELSE /\ get(heap, o).ret.t = "throw"
                   /\ orElse(heap, o, d).ret = Val(d)
                   /\ orElseGet(heap, o, s).ret = Val(ValueSupplierCall(s))
                   /\ orElseGet(heap, o, s).calls = <<Invocation("supplier", NoArg, Val(ValueSupplierCall(s)))>>
        /\ last.op \in {"orElse", "orElseGet"} =>
              /\ last.made = 0
              /\ IF ReceiverPresent
                 THEN last.ret = Val(heap[last.recv].payload) /\ last.calls = <<>>
                 ELSE IF last.op = "orElse"
                      THEN last.ret = Val(last.arg) /\ last.calls = <<>>
                      ELSE /\ Len(last.calls) = 1
                           /\ last.calls[1].cb = "supplier"
                           /\ last.ret = last.calls[1].out
                           /\ last.ret = Val(ValueSupplierCall(last.arg))

\* C11 witness: orElseGet on a present container, given a supplier of another value.
C11_Witness ==
    /\ impl = "optional"
    /\ last.op = "orElseGet"
    /\ ReceiverPresent
    /\ last.arg.c # heap[last.recv].payload
    /\ last.ret = Val(heap[last.recv].payload)

\* C12: orElseThrow on an empty container invokes the error supplier once and
\* throws exactly what it produced; on a present container it returns the payload
\* and does not invoke the supplier.
C12_OrElseThrow ==
    (impl = "optional" /\ last.op = "orElseThrow") =>
        /\ last.made = 0
        /\ IF ReceiverPresent
           THEN last.ret = Val(heap[last.recv].payload) /\ last.calls = <<>>
           ELSE /\ Len(last.calls) = 1
                /\ last.calls[1].cb = "errorSupplier"
                /\ last.calls[1].out = Val(ErrorSupplierCall(last.arg))
                /\ last.ret = Throw(last.calls[1].out.v)

\* C12 witness: orElseThrow on an empty container threw the caller's CustomError.
C12_Witness ==
    /\ impl = "optional"
    /\ last.op = "orElseThrow"
    /\ ReceiverEmpty
    /\ last.ret = Throw("CustomError")

\* The container from builds out of the record o.toOption() returns.
FromToOption(o) == Optional_from(heap, toOption(heap, o).ret.r)

\* C13: for every container o, from(o.toOption()) succeeds and yields a container
\* of the same class with the same payload.
C13_RoundTrip ==
    impl = "optional" =>
        \A o \in DOMAIN heap :
            /\ toOption(heap, o).ret.t = "option"
            /\ FromToOption(o).ret.t = "ref"
            /\ FromToOption(o).heap[FromToOption(o).ret.id] = heap[o]

\* C13 witness: toOption ran on a present container and from ran on a present
\* record; here from has just rebuilt a container equal to an older one.
C13_Witness ==
    /\ impl = "optional"
    /\ last.op = "from"
    /\ ReturnedFresh
    /\ \E o \in DOMAIN heap :
          /\ o # last.ret.id
          /\ heap[o].cls = "PresentOptional"
          /\ last.arg = toOption(heap, o).ret.r
          /\ heap[last.ret.id] = heap[o]

\* The records of the two shapes of Option: {kind: "present", value: v}, {kind: "empty"}.
WellShaped(r) ==
    \/ DOMAIN r = {"kind", "value"} /\ r.kind = "present"
    \/ r = [kind |-> "empty"]

\* C14 as stated: for every record r of one of the two shapes, whatever value it
\* carries, from(r) succeeds and from(r).toOption() equals r.
C14_Original ==
    (impl = "optional" /\ last.op = "from" /\ WellShaped(last.arg)) =>
        /\ ReturnedFresh
        /\ toOption(heap, last.ret.id).ret = Rec(last.arg)

\* C14 amended: for every record r of shape {kind: "present", value: v} with v
\* neither null nor undefined, or of shape {kind: "empty"}, from(r) succeeds and
\* from(r).toOption() has the same kind and the same value as r.
C14_RecordRoundTrip ==
    (/\ impl = "optional"
     /\ last.op = "from"
     /\ WellShaped(last.arg)
     /\ (last.arg.kind = "present" => last.arg.value \in NonNull)) =>
        /\ ReturnedFresh
        /\ toOption(heap, last.ret.id).ret = Rec(last.arg)

\* C14 witness: from built a present container out of a present record.
C14_Witness ==
    /\ impl = "optional"
    /\ last.op = "from"
    /\ WellShaped(last.arg)
    /\ last.arg.kind = "present"
    /\ ReturnedPresent(last.arg.value)

\* C15 as stated: from returns a present container whenever kind is "present", an
\* empty one whenever kind is "empty", and throws TypeError, constructing nothing,
\* for every other or missing kind.
C15_Original ==
    (impl = "optional" /\ last.op = "from") =>
        CASE Field(last.arg, "kind") = "present" ->
                 ReturnedFresh /\ heap[last.ret.id].cls = "PresentOptional"
          [] Field(last.arg, "kind") = "empty" -> ReturnedFresh /\ ReturnedEmpty
          [] OTHER -> last.ret = Throw("TypeError") /\ last.made = 0

\* C15 amended: from returns a present container when kind is "present" and the
\* value is neither null nor undefined, an empty container when kind is "empty",
\* and throws TypeError, constructing nothing, when kind is any other value or
\* missing, and also when kind is "present" and the value is null or undefined.
C15_FromMirrorsTag ==
    (impl = "optional" /\ last.op = "from") =>
        CASE Field(last.arg, "kind") = "present" /\ Field(last.arg, "value") \in NonNull ->
                 ReturnedFresh /\ ReturnedPresent(Field(last.arg, "value"))
          [] Field(last.arg, "kind") = "empty" -> ReturnedFresh /\ ReturnedEmpty
          [] OTHER -> last.ret = Throw("TypeError") /\ last.made = 0

\* C15 witness: from was given an object without a kind property and threw.
C15_Witness ==
    /\ impl = "optional"
    /\ last.op = "from"
    /\ "kind" \notin DOMAIN last.arg
    /\ last.ret = Throw("TypeError")

\* C16: toOption returns {kind: "present", value: payload} for a present container
\* and {kind: "empty"}, without a value property, for an empty one; no other kind
\* is produced.
C16_ToOption ==
    impl = "optional" =>
        /\ \A o \in DOMAIN heap :
              /\ toOption(heap, o).ret.t = "option"
              /\ toOption(heap, o).ret.r.kind \in {"present", "empty"}
        /\ last.op = "toOption" =>
              /\ last.made = 0
              /\ last.calls = <<>>
              /\ last.ret.t = "option"
              /\ IF ReceiverPresent
                 THEN /\ DOMAIN last.ret.r = {"kind", "value"}
                      /\ last.ret.r.kind = "present"
                      /\ last.ret.r.value = heap[last.recv].payload
                 ELSE /\ DOMAIN last.ret.r = {"kind"}
                      /\ last.ret.r.kind = "empty"

\* C16 witness: toOption was called on an empty container.
C16_Witness ==
    /\ impl = "optional"
    /\ last.op = "toOption"
    /\ ReceiverEmpty
    /\ last.ret.t = "option"

\* C17: toJSON returns the bare payload of a present container and null for an
\* empty one, whatever key it is given.
C17_ToJSON ==
    impl = "optional" =>
        /\ \A o \in DOMAIN heap, k \in Keys :
              toJSON(heap, o, k).ret = IF heap[o].cls = "PresentOptional"
                                       THEN Val(heap[o].payload)
                                       ELSE Val(Null)
        /\ last.op = "toJSON" =>
              /\ last.made = 0
              /\ last.calls = <<>>
              /\ IF ReceiverPresent
                 THEN last.ret = Val(heap[last.recv].payload)
                 ELSE last.ret = Val(Null)

\* C17 witness: toJSON was called on an empty container with a non-empty key.
C17_Witness ==
    /\ impl = "optional"
    /\ last.op = "toJSON"
    /\ ReceiverEmpty
    /\ last.arg = "key"
    /\ last.ret.t = "val"

\* C18: ifPresent invokes the action once, with the payload, on a present
\* container, and not at all on an empty one.
C18_IfPresent ==
    (impl = "optional" /\ last.op = "ifPresent") =>
        /\ last.made = 0
        /\ IF ReceiverPresent
           THEN last.calls = <<Invocation("consumer", heap[last.recv].payload, Void)>>
           ELSE last.calls = <<>>

\* C18 witness: ifPresent was called on an empty container.
C18_Witness ==
    /\ impl = "optional"
    /\ last.op = "ifPresent"
    /\ ReceiverEmpty

\* C19: every call of ifPresentOrElse invokes exactly one of its two callbacks,
\* once: the action with the payload on a present container, emptyAction on an
\* empty one.
C19_IfPresentOrElse ==
    (impl = "optional" /\ last.op = "ifPresentOrElse") =>
        /\ Len(last.calls) = 1
        /\ IF ReceiverPresent
           THEN last.calls[1] = Invocation("consumer", heap[last.recv].payload, Void)
           ELSE last.calls[1] = Invocation("emptyAction", NoArg, Void)

\* C19 witness: ifPresentOrElse was called on a present container.
C19_Witness ==
    /\ impl = "optional"
    /\ last.op = "ifPresentOrElse"
    /\ ReceiverPresent
    /\ Len(last.calls) = 1

\* C20: every call of matches invokes exactly one of cases.present and
\* cases.empty, once (present with the payload on a present container, empty on
\* an empty one), and returns what that callback returned, null and undefined
\* included, constructing nothing.
C20_Matches ==
    (impl = "optional" /\ last.op = "matches") =>
        /\ last.made = 0
        /\ Len(last.calls) = 1
        /\ last.ret = last.calls[1].out
        /\ IF ReceiverPresent
           THEN last.calls[1] =
                    Invocation("present", heap[last.recv].payload,
                               Val(MapperCall(last.arg.present, heap[last.recv].payload)))
           ELSE last.calls[1] =
                    Invocation("empty", NoArg, Val(ValueSupplierCall(last.arg.empty)))

\* C20 witness: matches on an empty container whose empty case returned undefined.
C20_Witness ==
    /\ impl = "optional"
    /\ last.op = "matches"
    /\ ReceiverEmpty
    /\ last.ret = Val(Undefined)

\* C21: orNull returns the payload of a present container and null for an empty
\* one; orUndefined returns the payload of a present container and undefined for
\* an empty one; neither throws, invokes anything or constructs a container.
C21_OrNullOrUndefined ==
    impl = "optional" =>
        /\ \A o \in DOMAIN heap :
              /\ orNull(heap, o).ret =
                     IF heap[o].cls = "PresentOptional" THEN Val(heap[o].payload) ELSE Val(Null)
              /\ orUndefined(heap, o).ret =
                     IF heap[o].cls = "PresentOptional" THEN Val(heap[o].payload) ELSE Val(Undefined)
        /\ last.op \in {"orNull", "orUndefined"} =>
              /\ last.made = 0
              /\ last.calls = <<>>
              /\ last.ret.t = "val"
              /\ IF ReceiverPresent
                 THEN last.ret = Val(heap[last.recv].payload)
                 ELSE last.ret = Val(IF last.op = "orNull" THEN Null ELSE Undefined)

\* C21 witness: orNull was called on an empty container and returned null.
C21_Witness ==
    /\ impl = "optional"
    /\ last.op = "orNull"
    /\ ReceiverEmpty
    /\ last.ret = Val(Null)

\* C22: left.flatMap(x => right.map(y => f(x, y))) returns a present container
\* holding f(payload of left, payload of right) when both are present and that
\* value is neither null nor undefined, and an empty container when left or right
\* is empty; when left is empty nothing is invoked, so neither right.map nor f runs.
C22_Combine ==
    (impl = "optional" /\ last.op = "flatMap" /\ last.arg.fn = "map_right") =>
        LET right == last.arg.right
            x == heap[last.recv].payload
            y == heap[right].payload
        IN  CASE ReceiverPresent /\ Present(heap, right) ->
                     /\ IF BiCall(last.arg.f, x, y) \in NonNull
                        THEN ReturnedPresent(BiCall(last.arg.f, x, y))
                        ELSE ReturnedEmpty
                     /\ Len(last.calls) = 1
                     /\ last.calls[1].arg = x
                     /\ last.calls[1].within =
                            <<[op |-> "map", recv |-> right,
                               calls |-> <<Invocation("mapper", y, Val(BiCall(last.arg.f, x, y)))>>]>>
              [] ReceiverPresent /\ ~Present(heap, right) ->
                     /\ ReturnedEmpty
                     /\ Len(last.calls) = 1
                     /\ last.calls[1].within = <<[op |-> "map", recv |-> right, calls |-> <<>>]>>
              [] OTHER ->
                     /\ ReturnedEmpty
                     /\ last.calls = <<>>

\* C22 witness: both containers are present, hold different payloads, and the
\* combination returned a present container holding the payload of right.
C22_Witness ==
    /\ impl = "optional"
    /\ last.op = "flatMap"
    /\ last.arg.fn = "map_right"
    /\ last.arg.f = "second"
    /\ ReceiverPresent
    /\ Present(heap, last.arg.right)
    /\ heap[last.recv].payload # heap[last.arg.right].payload
    /\ ReturnedPresent(heap[last.arg.right].payload)

\* The invocation c is one of the callback the last call was given, applied as
\* that callback applies.
OfGivenCallback(c) ==
    CASE last.op = "filter" ->
             c.cb = "predicate" /\ c.out = Bool(PredicateCall(last.arg, c.arg))
      [] last.op = "map" ->
             c.cb = "mapper" /\ c.out = Val(MapperCall(last.arg, c.arg))
      [] last.op = "flatMap" ->
             /\ c.cb = "mapper"
             /\ c.out = last.ret
             /\ last.arg.fn = "captured" => c.out = Ref(last.arg.id)
      [] last.op = "or" ->
             /\ c.cb = "supplier"
             /\ c.out = last.ret
             /\ last.arg.fn = "captured" => c.out = Ref(last.arg.id)
      [] last.op = "orElseGet" ->
             c.cb = "supplier" /\ c.out = Val(ValueSupplierCall(last.arg))
      [] last.op = "orElseThrow" ->
             c.cb = "errorSupplier" /\ c.out = Val(ErrorSupplierCall(last.arg))
      [] last.op = "ifPresent" -> c.cb = "consumer"
      [] last.op = "ifPresentOrElse" -> c.cb \in {"consumer", "emptyAction"}
      [] last.op = "matches" ->
             \/ c.cb = "present" /\ c.out = Val(MapperCall(last.arg.present, c.arg))
             \/ c.cb = "empty" /\ c.out = Val(ValueSupplierCall(last.arg.empty))
      [] OTHER -> FALSE

\* C23: every call invokes at most one callback, at most once, and that callback
\* is one the call itself was given; the same holds of every method call made
\* inside a callback's body; no container keeps anything but its class and a
\* plain payload, so no callback outlives the call it was given to.
C23_AtMostOneCallback ==
    impl = "optional" =>
        /\ Len(last.calls) <= 1
        /\ \A i \in DOMAIN last.calls :
              /\ OfGivenCallback(last.calls[i])
              /\ \A j \in DOMAIN last.calls[i].within :
                    Len(last.calls[i].within[j].calls) <= 1
        /\ \A o \in DOMAIN heap :
              /\ DOMAIN heap[o] \subseteq {"cls", "payload"}
              /\ "payload" \in DOMAIN heap[o] => heap[o].payload \in Values

\* C23 witness: flatMap invoked its mapper, whose body called map on a present
\* container, which invoked the inner mapper.
C23_Witness ==
    /\ impl = "optional"
    /\ last.op = "flatMap"
    /\ last.arg.fn = "map_right"
    /\ Len(last.calls) = 1
    /\ Len(last.calls[1].within) = 1
    /\ Len(last.calls[1].within[1].calls) = 1

HoldsValue(o) == heap[o].cls \in {"PresentOptional", "ValueOptional"}

\* C25: in every variant, of given null throws instead of returning an empty
\* container, and no static constructor given undefined returns a present
\* container.
C25_StrictLenientSplit ==
    /\ (last.op = "of" /\ last.arg = Null) => last.ret.t = "throw"
    /\ (/\ last.op \in {"of", "ofNonNull", "ofValue", "ofNullable"}
        /\ last.arg = Undefined
        /\ last.ret.t = "ref") => ~HoldsValue(last.ret.id)

\* C26: in every variant, a container a static constructor has just built from a
\* value v that is neither null nor undefined gives v back: get(), orElse(d) for
\* every d and orElseGet(s) for every s return v, and ifPresent hands v to its
\* callback.
C26_ConstructorStores ==
    (/\ last.op \in {"of", "ofNonNull", "ofValue", "ofNullable"}
     /\ last.arg \in NonNull
     /\ last.ret.t = "ref") =>
        /\ HoldsValue(last.ret.id)
        /\ getIn(impl, heap, last.ret.id).ret = Val(last.arg)
        /\ \A d \in Values : orElseIn(impl, heap, last.ret.id, d).ret = Val(last.arg)
        /\ \A s \in ValueSuppliers : orElseGetIn(impl, heap, last.ret.id, s).ret = Val(last.arg)
        /\ ifPresentIn(impl, heap, last.ret.id, Consumer).calls =
               <<Invocation("consumer", last.arg, Void)>>

\* C27: in optional.ts and in lib/index.ts, orElse throws when the value it is
\* given is null or undefined, on a present receiver and on an empty one.
C27_OrElseRejectsNull ==
    (/\ impl \in {"optional", "lib"}
     /\ last.op = "orElse"
     /\ last.arg \in {Null, Undefined}) => last.ret.t = "throw"

\* C28: from given a record whose kind is "present" and whose value is null or
\* undefined does what of does on that value: it throws TypeError and returns no
\* container, neither an empty one nor a present one holding null.
C28_FromNullValue ==
    impl = "optional" =>
        /\ \A v \in {Null, Undefined} :
              /\ Optional_from(heap, [kind |-> "present", value |-> v]) = Optional_of(heap, v)
              /\ Optional_from(heap, [kind |-> "present", value |-> v]).ret = Throw("TypeError")
        /\ (/\ last.op = "from"
            /\ Field(last.arg, "kind") = "present"
            /\ Field(last.arg, "value") \in {Null, Undefined}) =>
               /\ last.ret = Throw("TypeError")
               /\ last.made = 0

\* C28 witness: from was given {kind: "present", value: null} and threw.
C28_Witness ==
    /\ impl = "optional"
    /\ last.op = "from"
    /\ last.arg = [kind |-> "present", value |-> Null]
    /\ last.ret = Throw("TypeError")

\* The container an outcome returned, as class and payload.
Content(out) == out.heap[out.ret.id]

\* The heap the last call started from: calls only ever append to the heap.
PreHeap == SubSeq(heap, 1, Len(heap) - last.made)

\* C29: of every call o.flatMap(f) made, with Present o standing for
\* Optional.of(v) of its payload v: the call returned the very container f(v)
\* returns and left the heap f(v) leaves; if f is x => Optional.of(x), the
\* container returned has the class and payload of o; and for every container
\* mapper g, o.flatMap(f).flatMap(g) has the class and payload of
\* o.flatMap(x => f(x).flatMap(g)), both evaluated from the heap the call
\* started from.
C29_MonadLaws ==
    (impl = "optional" /\ last.op = "flatMap") =>
        /\ ReceiverPresent =>
              /\ last.ret = FlatMapperCall(PreHeap, last.arg, heap[last.recv].payload).ret
              /\ heap = FlatMapperCall(PreHeap, last.arg, heap[last.recv].payload).heap
        /\ last.arg.fn = "of_x" => heap[last.ret.id] = heap[last.recv]
        /\ \A g \in FlatMappers(heap) :
              Content(flatMap(heap, last.ret.id, g)) =
                  Content(flatMap(PreHeap, last.recv, [fn |-> "then", f |-> last.arg, g |-> g]))

\* C29 witness: o.flatMap(f) ran on a present o with an f that depends on its
\* argument and returned a present container, while a present container with
\* another payload exists for a second mapper to combine with.
C29_Witness ==
    /\ impl = "optional"
    /\ last.op = "flatMap"
    /\ last.arg.fn \in {"of_x", "map_right"}
    /\ ReceiverPresent
    /\ ReturnedFresh
    /\ heap[last.ret.id].cls = "PresentOptional"
    /\ \E o \in DOMAIN heap :
          heap[o].cls = "PresentOptional" /\ heap[o].payload # heap[last.ret.id].payload

\* o.filter(p).filter(q), evaluated from heap h.
FilterTwice(h, o, p, q) ==
    LET once == filter(h, o, p)
    IN  filter(once.heap, once.ret.id, q)

\* C30: of every call o.filter(p) made and every predicate q:
\* o.filter(p).filter(p) has the class and payload of o.filter(p);
\* o.filter(p).filter(q) has the class and payload of o.filter(q).filter(p),
\* evaluated from the heap the call started from; and the container returned
\* after one filter and after two is either empty or o itself.
C30_FilterLaws ==
    (impl = "optional" /\ last.op = "filter") =>
        /\ Content(filter(heap, last.ret.id, last.arg)) = heap[last.ret.id]
        /\ last.ret = Ref(last.recv) \/ ReturnedEmpty
        /\ \A q \in Predicates :
              /\ Content(filter(heap, last.ret.id, q)) =
                     Content(FilterTwice(PreHeap, last.recv, q, last.arg))
              /\ \/ filter(heap, last.ret.id, q).ret = Ref(last.recv)
                 \/ Content(filter(heap, last.ret.id, q)).cls = "EmptyOptional"
              /\ \/ FilterTwice(PreHeap, last.recv, q, last.arg).ret = Ref(last.recv)
                 \/ Content(FilterTwice(PreHeap, last.recv, q, last.arg)).cls = "EmptyOptional"

\* C30 witness: filter ran on a present container with a predicate that compares
\* the payload and accepted it, so a second predicate can still reject it.
C30_Witness ==
    /\ impl = "optional"
    /\ last.op = "filter"
    /\ last.arg.fn = "equals"
    /\ ReceiverPresent
    /\ last.ret = Ref(last.recv)

====
